---- MODULE Spec2Model ----
(***************************************************************************)
(* Route-geometry and risk-scoring engine of src/app.py:                   *)
(* calculate_bearing, calculate_turn_angle, get_recommended_speed,         *)
(* interpolate_route_points, get_traffic_data, identify_high_risk_zones    *)
(* and generate_route_report, and the request handlers fetch_routes,       *)
(* analyze_route, detailed_report and view_map.                            *)
(*                                                                         *)
(* A GeoPoint is a tuple <<lat, lng>> of integers, in metres on the local  *)
(* tangent plane of the route (north = +lat, east = +lng).  The geopy      *)
(* geodesic distance is the Euclidean distance of that plane and the       *)
(* spherical bearing formula is atan2(dlng, dlat), which is what both      *)
(* reduce to over the few kilometres a model route spans.  A tuple of any  *)
(* other length is a malformed point: unpacking or indexing it raises.     *)
(* Angles are whole degrees.                                               *)
(***************************************************************************)
EXTENDS Integers, Sequences, FiniteSets

VARIABLES
    pc,              \* position of the running function
    coords,          \* the route handed to the function
    coords_given,    \* FALSE when the caller passed None for the route
    pois,            \* the points of interest handed to the function
    i,               \* loop index (0-based, as enumerate / range give it)
    risk_zones,      \* identify_high_risk_zones: zones found so far;
                     \* generate_route_report: the zones passed in
    hazards,         \* number of points at which a random hazard draw fired
    caught,          \* the function's outermost except clause was entered
    raised,          \* an exception left the function
    traffic_data,    \* generate_route_report: traffic samples passed in
    total_distance,  \* generate_route_report: the distance text
    report,          \* generate_route_report: the returned report
    points_per_km,   \* interpolate_route_points: density argument
    interpolated,    \* interpolate_route_points: list under construction
    returned,        \* interpolate_route_points: the returned list
    turn_angle,      \* get_recommended_speed: argument
    road_type,       \* get_recommended_speed: argument
    speed,           \* get_recommended_speed: returned value
    last_angle,      \* argument of the previous get_recommended_speed call
    last_speed,      \* result of the previous get_recommended_speed call
    prev_bearing,    \* calculate_turn_angle: argument
    curr_bearing,    \* calculate_turn_angle: argument
    angle,           \* calculate_turn_angle: returned value
    zone_index,      \* identify_high_risk_zones: the index i at which each
                     \* zone of risk_zones was appended
    bearing_args,    \* calculate_bearing: <<lat1, lng1, lat2, lng2>>
    bearing,         \* calculate_bearing: returned value
    hour,            \* wall-clock hour at which get_traffic_data is called
    weights_at,      \* for each hour, the probabilities (percent) of the
                     \* level draws made by a call at that hour, <<>> if none
    session,         \* the server-side session store, per session
    map_files,       \* names of the templates/route_map_*.html files on disk
    uuid_count,      \* number of map file names handed out so far
    preview_count,   \* number of templates/route_preview_*.html files on disk
    html_file,       \* per session: the map file its analysis page links to
                     \* (0: none since the session's last fetch_routes)
    last,            \* the most recent request and the answer it got
    history          \* per session: "analysed" when an analyze_route
                     \* completed after the session's last fetch_routes,
                     \* "cleared" when a fetch_routes came after a completed
                     \* analysis, else "none"

vars == <<pc, coords, coords_given, pois, i, risk_zones, hazards, caught, raised,
          traffic_data, total_distance, report,
          points_per_km, interpolated, returned,
          turn_angle, road_type, speed, last_angle, last_speed,
          prev_bearing, curr_bearing, angle,
          zone_index, bearing_args, bearing,
          hour, weights_at,
          session, map_files, uuid_count, preview_count, html_file, last,
          history>>

riskVars   == <<coords, coords_given, pois, i, risk_zones, hazards, caught, raised>>
reportVars == <<traffic_data, total_distance, report>>
interpVars == <<points_per_km, interpolated, returned>>
speedVars  == <<turn_angle, road_type, speed, last_angle, last_speed>>
turnVars   == <<prev_bearing, curr_bearing, angle>>
bearingVars == <<bearing_args, bearing>>
clockVars  == <<hour, weights_at>>
webVars    == <<session, map_files, uuid_count, preview_count, html_file, last,
                history>>

(***************************************************************************)
(* Bounds of the model.                                                    *)
(***************************************************************************)
MaxLen == 22            \* longest route given to identify_high_risk_zones
MaxHazardPoints == 1    \* points of one run at which a hazard draw fires

(***************************************************************************)
(* Program constants.                                                      *)
(***************************************************************************)
TRUCK_WEIGHT == 375     \* tenths of a tonne (37.5)
MAX_SPEED_LIMIT == 60
HospitalRadius == 500   \* metres
IntersectionStride == 10
TurnThreshold == 30
MediumThreshold == 3
HighThreshold == 6

\* None passed as the distance text, and the report before the call returns
NoText == [kind |-> "none", tokens |-> <<>>, raw_nonempty |-> FALSE]
NoReport == [total_points |-> -1]

Abs(x) == IF x < 0 THEN -x ELSE x
Min(a, b) == IF a <= b THEN a ELSE b
Max(a, b) == IF a >= b THEN a ELSE b

WellFormedPoint(p) == Len(p) = 2

\* squared planar distance in square metres
DistSq(p, q) == (p[1] - q[1]) * (p[1] - q[1]) + (p[2] - q[2]) * (p[2] - q[2])

\* geodesic(p, q) raises for a point that is not a (lat, lng) pair
GeodesicRaises(p, q) == ~WellFormedPoint(p) \/ ~WellFormedPoint(q)

\* geodesic(p, q).meters < r
GeodesicWithin(p, q, r) == DistSq(p, q) < r * r

(***************************************************************************)
(* atan(a/b) in whole degrees for 0 <= a <= b, b > 0:                      *)
(* 45 x + 15.64 x (1 - x) with x = a/b in thousandths, rounded.            *)
(***************************************************************************)
AtanRatioDeg(a, b) ==
    LET q == (a * 1000) \div b
    IN  (45000 * q + (1564 * q * (1000 - q)) \div 100 + 500000) \div 1000000

\* math.degrees(math.atan2(y, x)), in -179..180
Atan2Deg(y, x) ==
    IF x = 0 /\ y = 0 THEN 0
    ELSE LET ax == Abs(x)
             ay == Abs(y)
             base == IF ay <= ax THEN AtanRatioDeg(ay, ax)
                                 ELSE 90 - AtanRatioDeg(ax, ay)
         IN  IF x >= 0 THEN (IF y >= 0 THEN base ELSE -base)
                       ELSE (IF y >= 0 THEN 180 - base ELSE base - 180)

\* the floats that are not finite numbers
NaN == 1000001
PosInf == 1000002
NegInf == 1000003
IsNaN(x) == x = NaN
IsInf(x) == x \in {PosInf, NegInf}
IsFinite(x) == ~IsNaN(x) /\ ~IsInf(x)

\* b - a in float arithmetic (line 36): NaN absorbs, inf - inf is NaN
FloatSub(b, a) ==
    IF IsNaN(a) \/ IsNaN(b) THEN NaN
    ELSE IF IsInf(a) /\ IsInf(b) THEN (IF a = b THEN NaN ELSE b)
    ELSE IF IsInf(b) THEN b
    ELSE IF IsInf(a) THEN (IF a = PosInf THEN NegInf ELSE PosInf)
    ELSE b - a

\* math.sin / math.cos raise ValueError on an infinite argument and return
\* NaN on NaN (lines 37-38): the operands are dlng, lat1 and lat2
BearingRaises(lat1, lng1, lat2, lng2) ==
    IsInf(lat1) \/ IsInf(lat2) \/ IsInf(FloatSub(lng2, lng1))

\* calculate_bearing without the final % 360 (faulty variant)
calculate_bearing_nomod(lat1, lng1, lat2, lng2) ==
    IF BearingRaises(lat1, lng1, lat2, lng2) THEN 0
    ELSE IF IsNaN(lat1) \/ IsNaN(lat2) \/ IsNaN(FloatSub(lng2, lng1)) THEN NaN
    ELSE Atan2Deg(lng2 - lng1, lat2 - lat1) + 360

\* calculate_bearing(lat1, lng1, lat2, lng2), lines 32-42
calculate_bearing(lat1, lng1, lat2, lng2) ==
    IF BearingRaises(lat1, lng1, lat2, lng2) THEN 0
    ELSE IF IsNaN(lat1) \/ IsNaN(lat2) \/ IsNaN(FloatSub(lng2, lng1)) THEN NaN
    ELSE (Atan2Deg(lng2 - lng1, lat2 - lat1) + 360) % 360

\* an argument that is not a number (None, a string): arithmetic and
\* comparisons on it raise TypeError
BadArg == 9999
IsNumber(x) == x # BadArg

\* calculate_turn_angle without the reflection of angles above 180 (faulty variant)
calculate_turn_angle_noreflect(prev, curr) ==
    IF ~IsNumber(prev) \/ ~IsNumber(curr) THEN 0
    ELSE Abs(curr - prev)

\* calculate_turn_angle(prev_bearing, curr_bearing), lines 44-50
calculate_turn_angle(prev, curr) ==
    IF ~IsNumber(prev) \/ ~IsNumber(curr) THEN 0
    ELSE LET a == Abs(curr - prev) IN Min(a, 360 - a)

\* get_recommended_speed with a U-turn branch returning 25 (faulty variant)
get_recommended_speed_uturn25(ta, rt) ==
    IF ~IsNumber(ta) THEN 30
    ELSE LET base_speed == IF rt = "urban" THEN 40 ELSE 50
         IN  IF ta < 15 THEN Min(MAX_SPEED_LIMIT, base_speed + 10)
             ELSE IF ta < 30 THEN Min(MAX_SPEED_LIMIT, base_speed)
             ELSE IF ta < 45 THEN Min(40, base_speed - 10)
             ELSE IF ta < 90 THEN Min(30, base_speed - 20)
             ELSE 25

\* get_recommended_speed with an inclusive first breakpoint (faulty variant)
get_recommended_speed_le15(ta, rt) ==
    IF ~IsNumber(ta) THEN 30
    ELSE LET base_speed == IF rt = "urban" THEN 40 ELSE 50
         IN  IF ta <= 15 THEN Min(MAX_SPEED_LIMIT, base_speed + 10)
             ELSE IF ta < 30 THEN Min(MAX_SPEED_LIMIT, base_speed)
             ELSE IF ta < 45 THEN Min(40, base_speed - 10)
             ELSE IF ta < 90 THEN Min(30, base_speed - 20)
             ELSE 15

\* get_recommended_speed(turn_angle, road_type), lines 52-68
get_recommended_speed(ta, rt) ==
    IF ~IsNumber(ta) THEN 30
    ELSE LET base_speed == IF rt = "urban" THEN 40 ELSE 50
         IN  IF ta < 15 THEN Min(MAX_SPEED_LIMIT, base_speed + 10)
             ELSE IF ta < 30 THEN Min(MAX_SPEED_LIMIT, base_speed)
             ELSE IF ta < 45 THEN Min(40, base_speed - 10)
             ELSE IF ta < 90 THEN Min(30, base_speed - 20)
             ELSE 15

(***************************************************************************)
(* identify_high_risk_zones(coords, pois)                                  *)
(***************************************************************************)

\* evaluating the hospital filter on this POI raises (KeyError on a missing
\* key, or geodesic on a location that is not a pair)
PoiRaises(poi) ==
    \/ "type" \notin DOMAIN poi
    \/ /\ poi.type = "hospital"
       /\ \/ "location" \notin DOMAIN poi
          \/ ~WellFormedPoint(poi.location)

\* the sum(...) over pois raises as a whole when any POI raises
HospitalScanRaises(pt) == \E k \in 1..Len(pois) : PoiRaises(pois[k])

\* the count taken over every POI in range, whatever its type (faulty
\* variant)
hospital_count_anytype(pt) ==
    Cardinality({k \in 1..Len(pois) :
                    GeodesicWithin(pt, pois[k].location, HospitalRadius)})

hospital_count(pt) ==
    Cardinality({k \in 1..Len(pois) :
                    /\ pois[k].type = "hospital"
                    /\ GeodesicWithin(pt, pois[k].location, HospitalRadius)})

\* the hospital block with a weight of 3 per hospital (faulty variant)
HospitalPart_weight3(pt) ==
    IF HospitalScanRaises(pt) THEN [score |-> 0, factors |-> <<>>]
    ELSE LET n == hospital_count(pt)
         IN  IF n > 0
             THEN [score |-> n * 3,
                   factors |-> <<[kind |-> "hospital(s) nearby", n |-> n]>>]
             ELSE [score |-> 0, factors |-> <<>>]

\* [score, factors] contributed by the hospital block (lines 137-144)
HospitalPart(pt) ==
    IF HospitalScanRaises(pt) THEN [score |-> 0, factors |-> <<>>]
    ELSE LET n == hospital_count(pt)
         IN  IF n > 0
             THEN [score |-> n * 2,
                   factors |-> <<[kind |-> "hospital(s) nearby", n |-> n]>>]
             ELSE [score |-> 0, factors |-> <<>>]

\* the intersection test with the comparison reversed (faulty variant)
SharpTurn_reversed(a) == a < TurnThreshold

\* the intersection test with a threshold of 60 (faulty variant)
SharpTurn_above60(a) == a > 60

\* the intersection test of line 154
SharpTurn(a) == a > TurnThreshold

\* the intersection block without the `i > 0` test, so that index 0 is
\* tested against coords[-10], the tenth point from the end (faulty variant)
TurnPart_noipositive(idx) ==
    IF idx % IntersectionStride = 0
       /\ idx < Len(coords) - IntersectionStride
    THEN LET pt   == coords[idx + 1]
             prev == IF idx >= IntersectionStride
                     THEN coords[idx - IntersectionStride + 1]
                     ELSE coords[Len(coords) + idx - IntersectionStride + 1]
             next == coords[idx + IntersectionStride + 1]
         IN  IF ~WellFormedPoint(prev) \/ ~WellFormedPoint(next)
             THEN [score |-> 0, factors |-> <<>>]
             ELSE LET pb == calculate_bearing(prev[1], prev[2], pt[1], pt[2])
                      nb == calculate_bearing(pt[1], pt[2], next[1], next[2])
                      ta == calculate_turn_angle(pb, nb)
                  IN  IF SharpTurn(ta)
                      THEN [score |-> 3,
                            factors |-> <<[kind |-> "Sharp turn/intersection",
                                           n |-> 1]>>]
                      ELSE [score |-> 0, factors |-> <<>>]
    ELSE [score |-> 0, factors |-> <<>>]

\* [score, factors] contributed by the intersection block (lines 147-158);
\* idx is the 0-based index, coords[idx + 1] the point in TLA+ indexing
TurnPart(idx) ==
    IF idx % IntersectionStride = 0 /\ idx > 0
       /\ idx < Len(coords) - IntersectionStride
    THEN LET pt   == coords[idx + 1]
             prev == coords[idx - IntersectionStride + 1]
             next == coords[idx + IntersectionStride + 1]
         IN  IF ~WellFormedPoint(prev) \/ ~WellFormedPoint(next)
             THEN [score |-> 0, factors |-> <<>>]
             ELSE LET pb == calculate_bearing(prev[1], prev[2], pt[1], pt[2])
                      nb == calculate_bearing(pt[1], pt[2], next[1], next[2])
                      ta == calculate_turn_angle(pb, nb)
                  IN  IF SharpTurn(ta)
                      THEN [score |-> 3,
                            factors |-> <<[kind |-> "Sharp turn/intersection",
                                           n |-> 1]>>]
                      ELSE [score |-> 0, factors |-> <<>>]
    ELSE [score |-> 0, factors |-> <<>>]

\* the random block with a construction weight of 6 (faulty variant)
RandomPart_weight6(crowded, construction) ==
    [score |-> (IF crowded THEN 4 ELSE 0) + (IF construction THEN 6 ELSE 0),
     factors |-> (IF crowded THEN <<[kind |-> "Crowded zone", n |-> 1]>>
                             ELSE <<>>)
                 \o (IF construction
                     THEN <<[kind |-> "Construction zone", n |-> 1]>>
                     ELSE <<>>)]

\* [score, factors] contributed by the random block (lines 161-170)
RandomPart(crowded, construction) ==
    [score |-> (IF crowded THEN 4 ELSE 0) + (IF construction THEN 5 ELSE 0),
     factors |-> (IF crowded THEN <<[kind |-> "Crowded zone", n |-> 1]>>
                             ELSE <<>>)
                 \o (IF construction
                     THEN <<[kind |-> "Construction zone", n |-> 1]>>
                     ELSE <<>>)]

\* the level with a strict comparison (faulty variant)
RiskLevel_strict(score) == IF score > HighThreshold THEN "High" ELSE "Medium"

\* the level expression of line 177
RiskLevel(score) == IF score >= HighThreshold THEN "High" ELSE "Medium"

\* the inclusion test with the threshold off by one (faulty variant)
Qualifies_low(score) == score >= MediumThreshold - 1

\* the inclusion test of line 172
Qualifies(score) == score >= MediumThreshold

\* one iteration of the for loop of line 132
EvaluatePoint ==
    /\ pc = "risk_loop"
    /\ i < Len(coords)
    /\ \E crowded, construction \in BOOLEAN :
          /\ (crowded \/ construction) => hazards < MaxHazardPoints
          /\ LET pt == coords[i + 1]
             IN  IF ~WellFormedPoint(pt)
                 THEN \* the unpacking of line 132 raises: outer except
                      /\ pc' = "risk_done"
                      /\ caught' = TRUE
                      /\ UNCHANGED <<i, risk_zones, zone_index, hazards>>
                 ELSE LET h == HospitalPart(pt)
                          t == TurnPart(i)
                          r == RandomPart(crowded, construction)
                          risk_score == h.score + t.score + r.score
                          risk_factors == h.factors \o t.factors \o r.factors
                      IN  /\ risk_zones' =
                               IF Qualifies(risk_score)
                               THEN Append(risk_zones,
                                      [location |-> pt,
                                       risk_score |-> risk_score,
                                       risk_factors |-> risk_factors,
                                       risk_level |-> RiskLevel(risk_score)])
                               ELSE risk_zones
                          /\ zone_index' =
                               IF Qualifies(risk_score)
                               THEN Append(zone_index, i)
                               ELSE zone_index
                          /\ hazards' = IF crowded \/ construction
                                        THEN hazards + 1 ELSE hazards
                          /\ i' = i + 1
                          /\ UNCHANGED <<pc, caught>>
    /\ UNCHANGED <<coords, coords_given, pois, raised>>
    /\ UNCHANGED <<reportVars, interpVars, speedVars, turnVars, bearingVars>>
    /\ UNCHANGED <<clockVars, webVars>>

\* the loop is exhausted: return risk_zones (line 182)
ReturnRiskZones ==
    /\ pc = "risk_loop"
    /\ i = Len(coords)
    /\ pc' = "risk_done"
    /\ UNCHANGED <<riskVars, reportVars, interpVars, speedVars, turnVars>>
    /\ UNCHANGED <<zone_index, bearingVars, clockVars, webVars>>

(***************************************************************************)
(* Inputs of identify_high_risk_zones.                                     *)
(***************************************************************************)
North == <<100, 0>>
East  == <<0, 100>>
South == <<-100, 0>>
West  == <<0, -100>>

RouteLens == (0..2) \cup {MaxLen}
TurnAts == {5, 10}
BadAts == {0, 3, MaxLen - 1}     \* 1-based position of a malformed point, 0 = none

\* a route of n points, 100 m apart, heading d1 for the first k segments
\* and d2 afterwards, with a malformed point at position bad
Route(n, k, d1, d2, bad) ==
    [j \in 1..n |->
        IF j = bad THEN <<>>
        ELSE LET a == Min(j - 1, k)
                 b == Max(0, j - 1 - k)
             IN  <<a * d1[1] + b * d2[1], a * d1[2] + b * d2[2]>>]

Routes == {Route(n, k, d1, d2, bad) :
              n \in RouteLens, k \in TurnAts, d1 \in {North},
              d2 \in {North, East, South, West}, bad \in BadAts}

Hospital(nm, loc) == [name |-> nm, location |-> loc, type |-> "hospital"]
Police(nm, loc) == [name |-> nm, location |-> loc, type |-> "police"]
Fuel(nm, loc) == [name |-> nm, location |-> loc, type |-> "fuel"]
NoTypePoi == [name |-> "x", location |-> <<0, 0>>]
NoLocHospital == [name |-> "y", location |-> <<>>, type |-> "hospital"]

PoiLists ==
    { <<>>,
      <<Hospital("h1", <<0, 0>>)>>,
      <<Hospital("h1", <<0, 0>>), Hospital("h2", <<100, 100>>)>>,
      <<Hospital("h1", <<0, 0>>), Hospital("h2", <<100, 100>>),
        Hospital("h3", <<0, 100>>)>>,
      <<Police("p1", <<0, 0>>), Hospital("h1", <<0, 0>>)>>,
      <<Fuel("f1", <<0, 0>>), Police("p1", <<0, 0>>),
        Hospital("h1", <<0, 0>>), Hospital("h2", <<100, 100>>)>>,
      <<NoTypePoi, Hospital("h1", <<0, 0>>), Hospital("h2", <<100, 100>>)>>,
      <<Hospital("h1", <<0, 0>>), Hospital("h2", <<100, 100>>), NoLocHospital>> }

\* hours at which the model calls get_traffic_data: night, morning peak,
\* midday, evening peak
Hours == {3, 8, 13, 18}

ClockIdle == /\ hour = 3 /\ weights_at = [h \in Hours |-> <<>>]

NumSessions == 2     \* browser sessions talking to the server
Sessions == 1..NumSessions

\* a session holding no key (a new session, or one after session.clear())
EmptySession == [directions |-> <<>>, route_report |-> 0]

NoRequest == [handler |-> "none", by |-> 0, route_index |-> 0, filename |-> 0,
              body |-> "", status |-> 0]

NoHistory == "none"

\* the server after start-up: no session data, no generated file
WebIdle ==
    /\ session = [s \in Sessions |-> EmptySession]
    /\ map_files = {}
    /\ uuid_count = 0
    /\ preview_count = 0
    /\ html_file = [s \in Sessions |-> 0]
    /\ last = NoRequest
    /\ history = [s \in Sessions |-> NoHistory]

ReportIdle == /\ traffic_data = <<>> /\ total_distance = NoText /\ report = NoReport
InterpIdle == /\ points_per_km = 10 /\ interpolated = <<>> /\ returned = <<>>
SpeedIdle  == /\ turn_angle = 0 /\ road_type = "urban" /\ speed = 0
              /\ last_angle = 0 /\ last_speed = 0
TurnIdle   == /\ prev_bearing = 0 /\ curr_bearing = 0 /\ angle = 0
BearingIdle == /\ bearing_args = <<0, 0, 0, 0>> /\ bearing = 0

InitRisk ==
    /\ pc = "risk_loop"
    /\ coords \in Routes
    /\ coords_given = TRUE
    /\ pois \in PoiLists
    /\ i = 0
    /\ risk_zones = <<>>
    /\ hazards = 0
    /\ caught = FALSE
    /\ raised = FALSE
    /\ ReportIdle /\ InterpIdle /\ SpeedIdle /\ TurnIdle
    /\ zone_index = <<>> /\ BearingIdle /\ ClockIdle /\ WebIdle

NextRisk == EvaluatePoint \/ ReturnRiskZones

SpecRisk == InitRisk /\ [][NextRisk]_vars

(***************************************************************************)
(* interpolate_route_points(coords, points_per_km)                         *)
(***************************************************************************)
MaxGrid == 3         \* interpolation inputs lie on a (MaxGrid+1) x 2 grid
MaxInterpLen == 3    \* longest route given to interpolate_route_points
GridStep == 60       \* metres between neighbouring grid points

\* 1/points_per_km in metres; the densities of the model divide 1000
MetresPerPoint(ppk) == 1000 \div ppk

\* distance_km > 1/points_per_km (line 85), d2 the squared distance in m^2
FarApart(d2, ppk) == d2 > MetresPerPoint(ppk) * MetresPerPoint(ppk)

\* int(distance_km * points_per_km) (line 87): the largest k with
\* k * (1000 / ppk) metres <= distance
NumPoints(d2, ppk) ==
    LET m == MetresPerPoint(ppk)
    IN  CHOOSE k \in 0..(d2 \div (m * m)) :
            /\ (k * m) * (k * m) <= d2
            /\ ((k + 1) * m) * ((k + 1) * m) > d2

\* the ratio taken as j / num_points (faulty variant)
Lerp_overn(a, b, j, n) == a + ((b - a) * j) \div n

\* start + (end - start) * j / (n + 1), per coordinate (lines 91-93),
\* rounded down to the metre
Lerp(a, b, j, n) == a + ((b - a) * j) \div (n + 1)

\* the points one segment appends when the inserted points take the place
\* of the segment's end point (faulty variant)
SegmentPoints_noend(start, end, ppk) ==
    LET d2 == DistSq(start, end)
    IN  IF FarApart(d2, ppk)
        THEN LET n == NumPoints(d2, ppk)
             IN  [j \in 1..n |-> <<Lerp(start[1], end[1], j, n),
                                   Lerp(start[2], end[2], j, n)>>]
        ELSE <<end>>

\* the points one segment appends to interpolated (lines 85-96)
SegmentPoints(start, end, ppk) ==
    LET d2 == DistSq(start, end)
    IN  (IF FarApart(d2, ppk)
         THEN LET n == NumPoints(d2, ppk)
              IN  [j \in 1..n |-> <<Lerp(start[1], end[1], j, n),
                                    Lerp(start[2], end[2], j, n)>>]
         ELSE <<>>) \o <<end>>

\* the segment raises: geodesic on a malformed point, or 1/points_per_km
SegmentRaises(start, end, ppk) == GeodesicRaises(start, end) \/ ppk = 0

\* the except clause returning the partial list (faulty variant)
ExceptResult_partial(c, partial) == partial

\* what the except clause returns (line 101)
ExceptResult(c, partial) == c

\* lines 72-76: the short-input return, or the start of the loop
InterpolateStart ==
    /\ pc = "interp_start"
    /\ IF Len(coords) < 2
       THEN /\ returned' = coords
            /\ pc' = "interp_done"
            /\ UNCHANGED <<interpolated, i>>
       ELSE /\ interpolated' = <<coords[1]>>
            /\ i' = 1
            /\ pc' = "interp_loop"
            /\ UNCHANGED returned
    /\ UNCHANGED <<coords, coords_given, pois, risk_zones, hazards, caught,
                   raised, points_per_km>>
    /\ UNCHANGED <<reportVars, speedVars, turnVars>>
    /\ UNCHANGED <<zone_index, bearingVars, clockVars, webVars>>

\* one iteration of the loop of line 78 (i as range(1, len(coords)) gives it)
InterpolateSegment ==
    /\ pc = "interp_loop"
    /\ i < Len(coords)
    /\ LET start == coords[i]
           end   == coords[i + 1]
       IN  IF SegmentRaises(start, end, points_per_km)
           THEN /\ caught' = TRUE
                /\ returned' = ExceptResult(coords, interpolated)
                /\ pc' = "interp_done"
                /\ UNCHANGED <<interpolated, i>>
           ELSE /\ interpolated' =
                       interpolated \o SegmentPoints(start, end, points_per_km)
                /\ i' = i + 1
                /\ UNCHANGED <<pc, caught, returned>>
    /\ UNCHANGED <<coords, coords_given, pois, risk_zones, hazards, raised,
                   points_per_km>>
    /\ UNCHANGED <<reportVars, speedVars, turnVars>>
    /\ UNCHANGED <<zone_index, bearingVars, clockVars, webVars>>

\* line 98: return interpolated
InterpolateReturn ==
    /\ pc = "interp_loop"
    /\ i = Len(coords)
    /\ returned' = interpolated
    /\ pc' = "interp_done"
    /\ UNCHANGED <<coords, coords_given, pois, i, risk_zones, hazards, caught,
                   raised, points_per_km, interpolated>>
    /\ UNCHANGED <<reportVars, speedVars, turnVars>>
    /\ UNCHANGED <<zone_index, bearingVars, clockVars, webVars>>

GridPoints == {<<a * GridStep, b * GridStep>> : a \in 0..MaxGrid, b \in 0..1}

InterpPoints == GridPoints \cup {<<>>}

\* two points 10 km apart, along a meridian and across the grid
LongRoutes == { << <<0, 0>>, <<0, 10000>> >>, << <<0, 0>>, <<6000, 8000>> >> }

InterpRoutes ==
    UNION {[1..n -> InterpPoints] : n \in 0..MaxInterpLen} \cup LongRoutes

Densities == {0, 10, 20}

RiskIdle == /\ pois = <<>> /\ risk_zones = <<>> /\ hazards = 0

InitInterp ==
    /\ pc = "interp_start"
    /\ coords \in InterpRoutes
    /\ coords_given = TRUE
    /\ points_per_km \in Densities
    /\ interpolated = <<>>
    /\ returned = <<>>
    /\ i = 0
    /\ caught = FALSE
    /\ raised = FALSE
    /\ RiskIdle /\ ReportIdle /\ SpeedIdle /\ TurnIdle
    /\ zone_index = <<>> /\ BearingIdle /\ ClockIdle /\ WebIdle

NextInterp == InterpolateStart \/ InterpolateSegment \/ InterpolateReturn

SpecInterp == InitInterp /\ [][NextInterp]_vars

(***************************************************************************)
(* Calls of get_recommended_speed and calculate_turn_angle.                *)
(***************************************************************************)
MaxAngle == 180      \* largest turn angle passed to get_recommended_speed
MaxBearing == 359    \* largest bearing passed to calculate_turn_angle

AngleInputs == (0..MaxAngle) \cup {BadArg}
RoadTypes == {"urban", "highway"}
BearingInputs == (0..MaxBearing) \cup {BadArg}

\* one call of get_recommended_speed; the previous call is remembered
GetRecommendedSpeed ==
    /\ pc \in {"speed_0", "speed_1", "speed_2"}
    /\ \E a \in AngleInputs :
          /\ turn_angle' = a
          /\ speed' = get_recommended_speed(a, road_type)
    /\ last_angle' = turn_angle
    /\ last_speed' = speed
    /\ pc' = IF pc = "speed_0" THEN "speed_1" ELSE "speed_2"
    /\ UNCHANGED road_type
    /\ UNCHANGED <<riskVars, reportVars, interpVars, turnVars>>
    /\ UNCHANGED <<zone_index, bearingVars, clockVars, webVars>>

InitSpeed ==
    /\ pc = "speed_0"
    /\ road_type \in RoadTypes
    /\ turn_angle = 0 /\ speed = 0 /\ last_angle = 0 /\ last_speed = 0
    /\ coords = <<>> /\ coords_given = TRUE
    /\ i = 0 /\ caught = FALSE /\ raised = FALSE
    /\ RiskIdle /\ ReportIdle /\ InterpIdle /\ TurnIdle
    /\ zone_index = <<>> /\ BearingIdle /\ ClockIdle /\ WebIdle

NextSpeed == GetRecommendedSpeed

SpecSpeed == InitSpeed /\ [][NextSpeed]_vars

\* one call of calculate_turn_angle
CalculateTurnAngle ==
    /\ pc = "turn_0"
    /\ \E x, y \in BearingInputs :
          /\ prev_bearing' = x
          /\ curr_bearing' = y
          /\ angle' = calculate_turn_angle(x, y)
    /\ pc' = "turn_1"
    /\ UNCHANGED <<riskVars, reportVars, interpVars, speedVars>>
    /\ UNCHANGED <<zone_index, bearingVars, clockVars, webVars>>

InitTurn ==
    /\ pc = "turn_0"
    /\ prev_bearing = 0 /\ curr_bearing = 0 /\ angle = 0
    /\ coords = <<>> /\ coords_given = TRUE
    /\ i = 0 /\ caught = FALSE /\ raised = FALSE
    /\ RiskIdle /\ ReportIdle /\ InterpIdle /\ SpeedIdle
    /\ zone_index = <<>> /\ BearingIdle /\ ClockIdle /\ WebIdle

NextTurn == CalculateTurnAngle

SpecTurn == InitTurn /\ [][NextTurn]_vars

(***************************************************************************)
(* generate_route_report(coords, pois, risk_zones, traffic_data,           *)
(*                       total_distance, total_duration)                   *)
(*                                                                         *)
(* The distance text is a record: kind "none" for None, "text" for a       *)
(* string, with the tokens str.split() gives.  Numbers read from the text  *)
(* and delay factors are in tenths; a quotient is a record [num, den].     *)
(* total_duration is only echoed, like total_distance, and is left out.    *)
(***************************************************************************)
Text(toks) == [kind |-> "text", tokens |-> toks, raw_nonempty |-> TRUE]

\* `if total_distance:` - None and the empty string are falsy
Truthy(td) == td.kind = "text" /\ td.raw_nonempty

\* float(token) in tenths; a token outside the table raises ValueError
FloatTable == [t \in {"12.5", "5", "0", "0.0"} |->
                 CASE t = "12.5" -> 125 [] t = "5" -> 50
                   [] t = "0" -> 0 [] t = "0.0" -> 0]

FloatRaises(t) == t \notin DOMAIN FloatTable

\* lines 188-195: distance_value in tenths
DistanceValue(td) ==
    IF ~Truthy(td) THEN 10
    ELSE IF td.tokens = <<>> THEN 10
    ELSE IF FloatRaises(td.tokens[1]) THEN 10
    ELSE FloatTable[td.tokens[1]]

HasKey(rec, k) == k \in DOMAIN rec

CountWhere(seq, key, val) ==
    Cardinality({k \in 1..Len(seq) : seq[k][key] = val})

Sum(seq, key) ==
    LET S[k \in 0..Len(seq)] == IF k = 0 THEN 0 ELSE S[k - 1] + seq[k][key]
    IN  S[Len(seq)]

\* building the report dict of lines 197-224 raises
ReportBodyRaises ==
    \/ ~coords_given                                  \* len(None)
    \/ DistanceValue(total_distance) = 0              \* division by zero
    \/ \E k \in 1..Len(risk_zones) : ~HasKey(risk_zones[k], "risk_level")
    \/ \E k \in 1..Len(pois) : ~HasKey(pois[k], "type")
    \/ \E k \in 1..Len(traffic_data) :
          ~HasKey(traffic_data[k], "traffic_level")
          \/ ~HasKey(traffic_data[k], "delay_factor")

\* the except clause of lines 227-252 raises itself: len(coords) on None
FallbackRaises == ~coords_given

FullRecommendations(high) ==
    << [text |-> "Maintain speed below {} kmph at all times",
        n |-> MAX_SPEED_LIMIT],
       [text |-> "Extra caution required at {} high-risk zones", n |-> high],
       [text |-> "Reduce speed to 15-30 kmph at sharp turns", n |-> 0],
       [text |-> "Plan for fuel stops at marked stations", n |-> 0],
       [text |-> "Keep emergency contacts handy for police/hospital locations",
        n |-> 0] >>

\* the report of lines 197-224
FullReport ==
    [total_distance |-> total_distance,
     truck_weight |-> TRUCK_WEIGHT,
     max_speed_limit |-> MAX_SPEED_LIMIT,
     total_points |-> Len(coords),
     points_per_km |-> [num |-> Len(coords) * 10,
                        den |-> DistanceValue(total_distance)],
     high_risk_zones |-> CountWhere(risk_zones, "risk_level", "High"),
     medium_risk_zones |-> CountWhere(risk_zones, "risk_level", "Medium"),
     hospitals_along_route |-> CountWhere(pois, "type", "hospital"),
     fuel_stations |-> CountWhere(pois, "type", "fuel"),
     police_stations |-> CountWhere(pois, "type", "police"),
     light_traffic_segments |-> CountWhere(traffic_data, "traffic_level", "light"),
     moderate_traffic_segments |->
         CountWhere(traffic_data, "traffic_level", "moderate"),
     heavy_traffic_segments |-> CountWhere(traffic_data, "traffic_level", "heavy"),
     average_delay_factor |->
         IF traffic_data # <<>>
         THEN [num |-> Sum(traffic_data, "delay_factor"),
               den |-> Len(traffic_data) * 10]
         ELSE [num |-> 1, den |-> 1],
     safety_recommendations |->
         FullRecommendations(CountWhere(risk_zones, "risk_level", "High"))]

\* the reduced report of lines 229-252
FallbackReport ==
    [total_distance |-> IF Truthy(total_distance) THEN total_distance
                        ELSE Text(<<"N/A">>),
     truck_weight |-> TRUCK_WEIGHT,
     max_speed_limit |-> MAX_SPEED_LIMIT,
     total_points |-> Len(coords),
     points_per_km |-> [num |-> 1, den |-> 1],
     high_risk_zones |-> 0,
     medium_risk_zones |-> 0,
     hospitals_along_route |-> 0,
     fuel_stations |-> 0,
     police_stations |-> 0,
     light_traffic_segments |-> 0,
     moderate_traffic_segments |-> 0,
     heavy_traffic_segments |-> 0,
     average_delay_factor |-> [num |-> 1, den |-> 1],
     safety_recommendations |->
         << [text |-> "Maintain speed below {} kmph at all times",
             n |-> MAX_SPEED_LIMIT] >>]

\* the whole call
GenerateRouteReport ==
    /\ pc = "report_call"
    /\ pc' = "report_done"
    /\ IF ~ReportBodyRaises
       THEN /\ report' = FullReport
            /\ UNCHANGED <<caught, raised>>
       ELSE /\ caught' = TRUE
            /\ IF FallbackRaises
               THEN /\ raised' = TRUE
                    /\ UNCHANGED report
               ELSE /\ report' = FallbackReport
                    /\ UNCHANGED raised
    /\ UNCHANGED <<coords, coords_given, pois, i, risk_zones, hazards,
                   traffic_data, total_distance>>
    /\ UNCHANGED <<interpVars, speedVars, turnVars>>
    /\ UNCHANGED <<zone_index, bearingVars, clockVars, webVars>>

Zone(level, score) ==
    [location |-> <<0, 0>>, risk_score |-> score, risk_factors |-> <<>>,
     risk_level |-> level]
NoLevelZone == [location |-> <<0, 0>>, risk_score |-> 4]

ReportZoneLists ==
    { <<>>, <<Zone("High", 7)>>, <<Zone("High", 6), Zone("Medium", 3)>>,
      <<Zone("Medium", 4), NoLevelZone>> }

ReportPoiLists ==
    PoiLists \cup { <<Fuel("f1", <<0, 0>>), Police("p1", <<0, 0>>),
                      Fuel("f2", <<0, 100>>)>> }

Sample(level, factor) ==
    [location |-> <<0, 0>>, traffic_level |-> level, delay_factor |-> factor]
NoLevelSample == [location |-> <<0, 0>>, delay_factor |-> 10]

TrafficLists ==
    { <<>>, <<Sample("light", 10)>>,
      <<Sample("light", 10), Sample("heavy", 18)>>,
      <<Sample("moderate", 13), Sample("moderate", 13), Sample("heavy", 18)>>,
      <<Sample("light", 10), NoLevelSample>> }

DistanceTexts ==
    { NoText,
      [kind |-> "text", tokens |-> <<>>, raw_nonempty |-> FALSE],   \* ""
      [kind |-> "text", tokens |-> <<>>, raw_nonempty |-> TRUE],    \* "  "
      [kind |-> "text", tokens |-> <<"12.5", "km">>, raw_nonempty |-> TRUE],
      [kind |-> "text", tokens |-> <<"5", "km">>, raw_nonempty |-> TRUE],
      [kind |-> "text", tokens |-> <<"0", "km">>, raw_nonempty |-> TRUE],
      [kind |-> "text", tokens |-> <<"0.0", "km">>, raw_nonempty |-> TRUE],
      [kind |-> "text", tokens |-> <<"1,234", "km">>, raw_nonempty |-> TRUE],
      [kind |-> "text", tokens |-> <<"abc">>, raw_nonempty |-> TRUE] }

ReportRoutes ==
    { <<>>, <<<<0, 0>>, <<100, 0>>>>, <<<<0, 0>>, <<100, 0>>, <<200, 0>>>> }

InitReport ==
    /\ pc = "report_call"
    /\ coords_given \in BOOLEAN
    /\ coords \in (IF coords_given THEN ReportRoutes ELSE {<<>>})
    /\ pois \in ReportPoiLists
    /\ risk_zones \in ReportZoneLists
    /\ traffic_data \in TrafficLists
    /\ total_distance \in DistanceTexts
    /\ report = NoReport
    /\ i = 0 /\ hazards = 0 /\ caught = FALSE /\ raised = FALSE
    /\ InterpIdle /\ SpeedIdle /\ TurnIdle
    /\ zone_index = <<>> /\ BearingIdle /\ ClockIdle /\ WebIdle

NextReport == GenerateRouteReport

SpecReport == InitReport /\ [][NextReport]_vars

(***************************************************************************)
(* Calls of calculate_bearing.                                             *)
(***************************************************************************)
MaxCoord == 2        \* finite coordinates are -MaxCoord..MaxCoord

CoordInputs == (-MaxCoord..MaxCoord) \cup {NaN, PosInf, NegInf}

\* one call of calculate_bearing
CalculateBearing ==
    /\ pc = "bearing_0"
    /\ \E lat1, lng1, lat2, lng2 \in CoordInputs :
          /\ bearing_args' = <<lat1, lng1, lat2, lng2>>
          /\ bearing' = calculate_bearing(lat1, lng1, lat2, lng2)
    /\ pc' = "bearing_1"
    /\ UNCHANGED <<riskVars, reportVars, interpVars, speedVars, turnVars>>
    /\ UNCHANGED <<zone_index, clockVars, webVars>>

InitBearing ==
    /\ pc = "bearing_0"
    /\ bearing_args = <<0, 0, 0, 0>> /\ bearing = 0
    /\ coords = <<>> /\ coords_given = TRUE
    /\ i = 0 /\ caught = FALSE /\ raised = FALSE
    /\ RiskIdle /\ ReportIdle /\ InterpIdle /\ SpeedIdle /\ TurnIdle
    /\ zone_index = <<>> /\ ClockIdle /\ WebIdle

NextBearing == CalculateBearing

SpecBearing == InitBearing /\ [][NextBearing]_vars

(***************************************************************************)
(* get_traffic_data(coords)                                                *)
(***************************************************************************)
MaxTrafficLen == 11  \* longest route given to get_traffic_data
TrafficStride == 5

TrafficLevels == {"light", "moderate", "heavy"}

\* the delay table with 0.8 for heavy (faulty variant)
DelayFactor_heavy08(level) ==
    CASE level = "light" -> 10 [] level = "moderate" -> 13 [] level = "heavy" -> 8

\* the delay table of line 118, in tenths
DelayFactor(level) ==
    CASE level = "light" -> 10 [] level = "moderate" -> 13 [] level = "heavy" -> 18

\* the probabilities with light and heavy exchanged (faulty variant)
LevelWeights_heavy == <<20, 40, 40>>

\* p=[0.4, 0.4, 0.2] for light, moderate, heavy (line 114), in percent
LevelWeights == <<40, 40, 20>>

\* the slice taken from 5 points on (faulty variant)
SampleCoords_from5(c) ==
    IF Len(c) >= TrafficStride
    THEN [k \in 1..((Len(c) + TrafficStride - 1) \div TrafficStride) |->
             c[(k - 1) * TrafficStride + 1]]
    ELSE c

\* coords[::5] if len(coords) > 5 else coords (line 109)
SampleCoords(c) ==
    IF Len(c) > TrafficStride
    THEN [k \in 1..((Len(c) + TrafficStride - 1) \div TrafficStride) |->
             c[(k - 1) * TrafficStride + 1]]
    ELSE c

\* one iteration of the loop of line 111; the level is the random draw
SampleTraffic ==
    /\ pc = "traffic_loop"
    /\ i < Len(SampleCoords(coords))
    /\ LET pt == SampleCoords(coords)[i + 1]
       IN  IF ~WellFormedPoint(pt)
           THEN \* the unpacking of line 111 raises: outer except
                /\ pc' = "traffic_done"
                /\ caught' = TRUE
                /\ UNCHANGED <<i, traffic_data, weights_at>>
           ELSE /\ \E level \in TrafficLevels :
                      traffic_data' = Append(traffic_data,
                          [location |-> pt,
                           traffic_level |-> level,
                           delay_factor |-> DelayFactor(level)])
                /\ weights_at' = [weights_at EXCEPT ![hour] = LevelWeights]
                /\ i' = i + 1
                /\ UNCHANGED <<pc, caught>>
    /\ UNCHANGED <<coords, coords_given, pois, risk_zones, hazards, raised,
                   total_distance, report, hour>>
    /\ UNCHANGED <<interpVars, speedVars, turnVars>>
    /\ UNCHANGED <<zone_index, bearingVars, webVars>>

\* the next analysis calls get_traffic_data on the route again (line 783),
\* at whatever hour it then is
CallTrafficAgain ==
    /\ pc = "traffic_done"
    /\ hour' \in Hours
    /\ traffic_data' = <<>>
    /\ i' = 0
    /\ caught' = FALSE
    /\ pc' = "traffic_loop"
    /\ UNCHANGED <<coords, coords_given, pois, risk_zones, hazards, raised,
                   total_distance, report, weights_at>>
    /\ UNCHANGED <<interpVars, speedVars, turnVars>>
    /\ UNCHANGED <<zone_index, bearingVars, webVars>>

\* the loop is exhausted: return traffic_data (line 125)
ReturnTraffic ==
    /\ pc = "traffic_loop"
    /\ i = Len(SampleCoords(coords))
    /\ pc' = "traffic_done"
    /\ UNCHANGED <<riskVars, reportVars, interpVars, speedVars, turnVars>>
    /\ UNCHANGED <<zone_index, bearingVars, clockVars, webVars>>

TrafficRoutes ==
    {Route(n, 0, North, East, bad) : n \in 0..MaxTrafficLen, bad \in {0, 2, 6}}

InitTraffic ==
    /\ pc = "traffic_loop"
    /\ coords \in TrafficRoutes
    /\ coords_given = TRUE
    /\ traffic_data = <<>>
    /\ i = 0 /\ caught = FALSE /\ raised = FALSE
    /\ total_distance = NoText /\ report = NoReport
    /\ RiskIdle /\ InterpIdle /\ SpeedIdle /\ TurnIdle
    /\ zone_index = <<>> /\ BearingIdle /\ WebIdle
    /\ hour \in Hours
    /\ weights_at = [h \in Hours |-> <<>>]

NextTraffic == SampleTraffic \/ ReturnTraffic \/ CallTrafficAgain

SpecTraffic == InitTraffic /\ [][NextTraffic]_vars

(***************************************************************************)
(* The request handlers fetch_routes, analyze_route, detailed_report and   *)
(* view_map, for several browser sessions.  A request is served in one     *)
(* step.  The routes of a Directions answer are numbered 1..n and carry    *)
(* every key the handlers read; the report of an analysis is identified    *)
(* with the number of the analysed route.  A map file name is the number   *)
(* of the uuid it was made from.                                           *)
(***************************************************************************)
MaxRoutes == 2       \* most routes one Directions answer holds
MaxMaps == 2         \* most map files written in one run

\* what the form of a fetch_routes request and the Directions service give:
\* coordinates that are no numbers, a raised exception (a form field
\* missing, a failing service call), an empty answer, an answer with routes
FetchKinds == {"bad_coords", "exception", "no_routes", "routes"}

\* route_index values posted to analyze_route (BadArg: not an integer)
RouteIndexInputs == {-(MaxRoutes + 1), -1, 0, MaxRoutes - 1, MaxRoutes, BadArg}

InvalidRoute == "Invalid route selected or session data expired. Please start over."
NoAnalysis == "No route analysis data found. Please analyze a route first."

\* the session emptied of its directions only (faulty variant)
session_clear_keepreport(sess) == [sess EXCEPT !.directions = <<>>]

\* session.clear() (line 555)
session_clear(sess) == EmptySession

\* not directions or index >= len(directions) (line 738)
IndexRejected(directions, index) ==
    directions = <<>> \/ index >= Len(directions)

\* directions[index] raises IndexError (line 741)
IndexRaises(directions, index) == index < -Len(directions)

\* directions[index] with Python's indexing: a negative index counts from
\* the end of the list (line 741)
PyIndex(directions, index) ==
    IF index >= 0 THEN directions[index + 1]
    ELSE directions[Len(directions) + index + 1]

Answer(handler, s, index, filename, body, status) ==
    [handler |-> handler, by |-> s, route_index |-> index,
     filename |-> filename, body |-> body, status |-> status]

\* POST /fetch_routes (lines 550-729)
FetchRoutes(s) ==
    /\ pc = "serving"
    /\ \E kind \in FetchKinds :
       \E n \in IF kind = "routes" THEN 1..MaxRoutes ELSE {0} :
          LET cleared == session_clear(session[s])
              stored == kind = "routes"
              body == CASE kind = "bad_coords" ->
                              "Invalid coordinates format. Please use: latitude,longitude"
                        [] kind = "no_routes" ->
                              "No routes found between the specified locations."
                        [] kind = "routes" -> "route_select.html"
                        [] OTHER -> "Error processing route request"
          IN  /\ session' = [session EXCEPT ![s] =
                     IF stored
                     THEN [cleared EXCEPT !.directions = [k \in 1..n |-> k]]
                     ELSE cleared]
              /\ preview_count' = IF stored THEN n ELSE 0
              /\ last' = Answer("fetch_routes", s, 0, 0, body, 200)
              /\ history' = [history EXCEPT ![s] =
                     IF history[s] = "none" THEN "none" ELSE "cleared"]
    /\ map_files' = {}
    /\ html_file' = [html_file EXCEPT ![s] = 0]
    /\ UNCHANGED <<uuid_count, pc, zone_index>>
    /\ UNCHANGED <<riskVars, reportVars, interpVars, speedVars, turnVars>>
    /\ UNCHANGED <<bearingVars, clockVars>>

\* POST /analyze_route (lines 731-1138)
AnalyzeRoute(s) ==
    /\ pc = "serving"
    /\ \E index \in RouteIndexInputs :
          LET directions == session[s].directions
          IN  IF ~IsNumber(index)
              THEN \* int() raises ValueError (line 736): except clause
                   /\ last' = Answer("analyze_route", s, index, 0,
                                     "Error analyzing route", 200)
                   /\ UNCHANGED <<session, map_files, uuid_count, html_file,
                                  history>>
              ELSE IF IndexRejected(directions, index)
              THEN /\ last' = Answer("analyze_route", s, index, 0,
                                     InvalidRoute, 200)
                   /\ UNCHANGED <<session, map_files, uuid_count, html_file,
                                  history>>
              ELSE IF IndexRaises(directions, index)
              THEN /\ last' = Answer("analyze_route", s, index, 0,
                                     "Error analyzing route", 200)
                   /\ UNCHANGED <<session, map_files, uuid_count, html_file,
                                  history>>
              ELSE LET selected == PyIndex(directions, index)
                       html_name == uuid_count + 1
                   IN  /\ uuid_count < MaxMaps
                       /\ uuid_count' = uuid_count + 1
                       /\ map_files' = map_files \cup {html_name}
                       /\ session' = [session EXCEPT
                                         ![s].route_report = selected]
                       /\ html_file' = [html_file EXCEPT ![s] = html_name]
                       /\ history' = [history EXCEPT ![s] = "analysed"]
                       /\ last' = Answer("analyze_route", s, index, html_name,
                                         "route_analysis.html", 200)
    /\ UNCHANGED <<preview_count, pc, zone_index>>
    /\ UNCHANGED <<riskVars, reportVars, interpVars, speedVars, turnVars>>
    /\ UNCHANGED <<bearingVars, clockVars>>

\* GET /detailed_report (lines 1140-1441)
DetailedReport(s) ==
    /\ pc = "serving"
    /\ LET rep == session[s].route_report
       IN  last' = IF rep = 0
                   THEN Answer("detailed_report", s, 0, 0, NoAnalysis, 200)
                   ELSE Answer("detailed_report", s, 0, 0,
                               "detailed_report.html", 200)
    /\ UNCHANGED <<session, map_files, uuid_count, preview_count, html_file,
                   history, pc, zone_index>>
    /\ UNCHANGED <<riskVars, reportVars, interpVars, speedVars, turnVars>>
    /\ UNCHANGED <<bearingVars, clockVars>>

\* GET /view_map/<filename> (lines 1443-1454)
ViewMap(s) ==
    /\ pc = "serving"
    /\ \E filename \in 1..MaxMaps :
          last' = IF filename \notin map_files
                  THEN Answer("view_map", s, 0, filename,
                              "Map file not found", 404)
                  ELSE Answer("view_map", s, 0, filename, "map", 200)
    /\ UNCHANGED <<session, map_files, uuid_count, preview_count, html_file,
                   history, pc, zone_index>>
    /\ UNCHANGED <<riskVars, reportVars, interpVars, speedVars, turnVars>>
    /\ UNCHANGED <<bearingVars, clockVars>>

InitWeb ==
    /\ pc = "serving"
    /\ WebIdle
    /\ coords = <<>> /\ coords_given = TRUE
    /\ i = 0 /\ caught = FALSE /\ raised = FALSE
    /\ RiskIdle /\ ReportIdle /\ InterpIdle /\ SpeedIdle /\ TurnIdle
    /\ zone_index = <<>> /\ BearingIdle /\ ClockIdle

NextWeb ==
    \E s \in Sessions :
        \/ FetchRoutes(s)
        \/ AnalyzeRoute(s)
        \/ DetailedReport(s)
        \/ ViewMap(s)

SpecWeb == InitWeb /\ [][NextWeb]_vars

(***************************************************************************)
(* Properties of identify_high_risk_zones (checked under SpecRisk).        *)
(***************************************************************************)
Zones == {risk_zones[z] : z \in 1..Len(risk_zones)}

HospitalPois == {k \in 1..Len(pois) :
                    "type" \in DOMAIN pois[k] /\ pois[k].type = "hospital"}

C2_ZonesAtLeastMedium == \A z \in Zones : z.risk_score >= MediumThreshold

\* the whole route was evaluated, some zone was returned, and a point with a
\* single hospital nearby (score 2) was left out
C2_Witness ==
    /\ pc = "risk_done" /\ i = Len(coords) /\ Len(risk_zones) > 0
    /\ \E j \in 1..Len(coords) :
          /\ WellFormedPoint(coords[j])
          /\ HospitalPart(coords[j]).score = 2
          /\ \A z \in Zones : z.location # coords[j]

\* C3: a point that raises does not stop the evaluation of the later points:
\* the function does not raise and every well-formed point whose hospital
\* and turn contributions already reach the threshold is reported.
C3_LaterPointsStillReported ==
    pc = "risk_done" =>
        /\ ~raised
        /\ \A j \in 1..Len(coords) :
              ( /\ WellFormedPoint(coords[j])
                /\ Qualifies(HospitalPart(coords[j]).score + TurnPart(j - 1).score) )
              => \E z \in Zones : z.location = coords[j]

SegmentBearing(j) ==
    calculate_bearing(coords[j][1], coords[j][2], coords[j + 1][1], coords[j + 1][2])

\* every point is a pair and every segment has the same bearing
StraightRoute ==
    /\ \A j \in 1..Len(coords) : WellFormedPoint(coords[j])
    /\ \A j \in 1..(Len(coords) - 1) : SegmentBearing(j) = SegmentBearing(1)

HasFactor(z, kind) ==
    \E f \in 1..Len(z.risk_factors) : z.risk_factors[f].kind = kind

\* C7: with no POIs, a straight route and no random hazard draw firing, the
\* function returns an empty sequence and no sharp-turn factor is recorded.
C7_StraightRouteNoZones ==
    (pc = "risk_done" /\ pois = <<>> /\ StraightRoute /\ hazards = 0)
        => /\ risk_zones = <<>>
           /\ \A z \in Zones : ~HasFactor(z, "Sharp turn/intersection")

\* a straight route long enough for the intersection test to run at index
\* 10 was evaluated to its end with no POIs and no hazard draw firing
C7_Witness ==
    /\ pc = "risk_done" /\ pois = <<>> /\ StraightRoute /\ hazards = 0
    /\ i = Len(coords) /\ Len(coords) > 2 * IntersectionStride

(***************************************************************************)
(* Properties of interpolate_route_points (checked under SpecInterp).      *)
(***************************************************************************)
\* s is found in t, in order, from position from on (each element of s at
\* its earliest possible position)
RECURSIVE MatchFrom(_, _, _)
MatchFrom(s, t, from) ==
    IF s = <<>> THEN TRUE
    ELSE LET cand == {x \in from..Len(t) : t[x] = Head(s)}
         IN  /\ cand # {}
             /\ MatchFrom(Tail(s), t,
                          (CHOOSE x \in cand : \A y \in cand : x <= y) + 1)

IsSubsequence(s, t) == MatchFrom(s, t, 1)

\* C5: for an input of at least 2 points the output starts with the first
\* input point, ends with the last one, contains the input as a subsequence
\* and is not shorter than the input.
C5_EndpointsAndOrderKept ==
    (pc = "interp_done" /\ Len(coords) >= 2) =>
        /\ Len(returned) >= Len(coords)
        /\ returned[1] = coords[1]
        /\ returned[Len(returned)] = coords[Len(coords)]
        /\ IsSubsequence(coords, returned)

\* a route of at least 2 points was densified: points were inserted
C5_Witness ==
    /\ pc = "interp_done" /\ Len(coords) >= 2 /\ ~caught
    /\ Len(returned) > Len(coords)

\* C6: an input of fewer than 2 points is returned unchanged, and when a
\* segment raises the result is exactly the original sequence.
C6_FallsBackToInput ==
    (pc = "interp_done" /\ (Len(coords) < 2 \/ caught)) => returned = coords

\* a segment raised after an earlier segment had been densified
C6_Witness ==
    /\ pc = "interp_done" /\ caught
    /\ Len(interpolated) > i
    /\ returned = coords

(***************************************************************************)
(* Properties of get_recommended_speed (checked under SpecSpeed).          *)
(***************************************************************************)
SpeedCalled == pc \in {"speed_1", "speed_2"}

\* C8 as stated: with the default road type the function returns
\* MAX_SPEED_LIMIT for a turn angle of 0 and for every angle up to 20.
C8_MaxSpeedUpTo20 ==
    (SpeedCalled /\ road_type = "urban" /\ turn_angle \in 0..20)
        => speed = MAX_SPEED_LIMIT

\* C8 amended: with the default (urban) road type the function returns 50
\* for every angle below 15 and 40 for angles from 15 to 20 (to below 30);
\* MAX_SPEED_LIMIT is returned only for another road type below 15 degrees.
C8_UrbanSpeedsBelow30 ==
    (SpeedCalled /\ IsNumber(turn_angle)) =>
        /\ (road_type = "urban" /\ turn_angle < 15) => speed = 50
        /\ (road_type = "urban" /\ turn_angle >= 15 /\ turn_angle < 30)
               => speed = 40
        /\ speed = MAX_SPEED_LIMIT <=> (road_type # "urban" /\ turn_angle < 15)

\* the default road type was asked for a straight stretch
C8_Witness == SpeedCalled /\ road_type = "urban" /\ turn_angle = 0 /\ speed = 50

\* C9: for each road type the speed is non-increasing in the turn angle over
\* [0,180], never exceeds MAX_SPEED_LIMIT, and is 15 at 180, the lowest
\* value returned for any angle.
C9_SpeedMonotone ==
    /\ (pc = "speed_2" /\ IsNumber(turn_angle) /\ IsNumber(last_angle)
            /\ last_angle <= turn_angle) => speed <= last_speed
    /\ (SpeedCalled /\ IsNumber(turn_angle)) =>
            /\ speed <= MAX_SPEED_LIMIT
            /\ speed >= 15
            /\ turn_angle = 180 => speed = 15

\* two calls with increasing angles, the second at 180 with a lower speed
C9_Witness ==
    /\ pc = "speed_2" /\ IsNumber(last_angle) /\ last_angle < turn_angle
    /\ turn_angle = 180 /\ speed = 15 /\ last_speed > speed

(***************************************************************************)
(* Properties of calculate_turn_angle (checked under SpecTurn).            *)
(***************************************************************************)
\* C10: for bearings x and y in [0,360) the turn angle is symmetric in x
\* and y, equals min(|x-y|, 360-|x-y|) and lies in [0,180].
C10_TurnAngleSymmetric ==
    (pc = "turn_1" /\ prev_bearing \in 0..359 /\ curr_bearing \in 0..359) =>
        /\ angle = calculate_turn_angle(curr_bearing, prev_bearing)
        /\ angle = Min(Abs(prev_bearing - curr_bearing),
                       360 - Abs(prev_bearing - curr_bearing))
        /\ angle >= 0 /\ angle <= 180

\* a pair of bearings more than 180 apart was reflected
C10_Witness ==
    /\ pc = "turn_1" /\ prev_bearing \in 0..359 /\ curr_bearing \in 0..359
    /\ Abs(prev_bearing - curr_bearing) > 180
    /\ angle = 360 - Abs(prev_bearing - curr_bearing)

(***************************************************************************)
(* Properties of generate_route_report (checked under SpecReport).         *)
(***************************************************************************)
ReportCounts(r) ==
    { r.high_risk_zones, r.medium_risk_zones, r.hospitals_along_route,
      r.fuel_stations, r.police_stations, r.light_traffic_segments,
      r.moderate_traffic_segments, r.heavy_traffic_segments }

\* C4: the function never raises, whatever the inputs (a missing point
\* sequence included), and when the normal computation fails it returns a
\* reduced report with all counts 0, average_delay_factor 1.0 and a
\* non-empty list of safety recommendations.
C4_NeverRaises ==
    pc = "report_done" =>
        /\ ~raised
        /\ caught => /\ ReportCounts(report) = {0}
                     /\ report.average_delay_factor.num
                            = report.average_delay_factor.den
                     /\ report.safety_recommendations # <<>>

(***************************************************************************)
(* Properties of calculate_bearing (checked under SpecBearing).            *)
(***************************************************************************)
BearingCalled == pc = "bearing_1"
AllFinite == \A k \in 1..4 : IsFinite(bearing_args[k])

\* C11: for finite points the bearing is in the half-open range [0,360),
\* and for two identical points it is 0.
C11_BearingInRange ==
    (BearingCalled /\ AllFinite) =>
        /\ bearing >= 0 /\ bearing < 360
        /\ (bearing_args[1] = bearing_args[3] /\ bearing_args[2] = bearing_args[4])
               => bearing = 0

\* a bearing west of north, where atan2 is negative, was normalised
C11_Witness ==
    /\ BearingCalled /\ AllFinite
    /\ bearing_args[4] < bearing_args[2]
    /\ bearing > 180

\* C12: whenever one of the four coordinates is NaN or infinite the function
\* returns 0: it neither raises nor returns NaN.
C12_FailsClosed ==
    (BearingCalled /\ ~AllFinite) => (bearing = 0 /\ ~raised)

(***************************************************************************)
(* Properties of get_traffic_data (checked under SpecTraffic).             *)
(***************************************************************************)
Samples == {traffic_data[k] : k \in 1..Len(traffic_data)}

\* C17: every sample has a level in {light, moderate, heavy}, the delay
\* factor fixed by that level (1.0, 1.3, 1.8), hence at least 1.0, and a
\* location that is one of the input points.
C17_SamplesWellFormed ==
    \A t \in Samples :
        /\ t.traffic_level \in {"light", "moderate", "heavy"}
        /\ t.traffic_level = "light" => t.delay_factor = 10
        /\ t.traffic_level = "moderate" => t.delay_factor = 13
        /\ t.traffic_level = "heavy" => t.delay_factor = 18
        /\ t.delay_factor >= 10
        /\ \E j \in 1..Len(coords) : coords[j] = t.location

\* the function returned samples of all three levels
C17_Witness ==
    /\ pc = "traffic_done"
    /\ \A l \in TrafficLevels : \E t \in Samples : t.traffic_level = l

(***************************************************************************)
(* Further properties of generate_route_report (under SpecReport).         *)
(***************************************************************************)
\* a point sequence was passed and every zone, POI and sample has its keys
WellFormedReportInputs ==
    /\ coords_given
    /\ \A k \in 1..Len(risk_zones) : "risk_level" \in DOMAIN risk_zones[k]
    /\ \A k \in 1..Len(pois) : "type" \in DOMAIN pois[k]
    /\ \A k \in 1..Len(traffic_data) :
          /\ "traffic_level" \in DOMAIN traffic_data[k]
          /\ "delay_factor" \in DOMAIN traffic_data[k]

NumZones(level) ==
    Cardinality({k \in 1..Len(risk_zones) : risk_zones[k].risk_level = level})
NumPois(type) ==
    Cardinality({k \in 1..Len(pois) : pois[k].type = type})
NumSamples(level) ==
    Cardinality({k \in 1..Len(traffic_data) :
                    traffic_data[k].traffic_level = level})

CountsAreTrue ==
    /\ report.high_risk_zones = NumZones("High")
    /\ report.medium_risk_zones = NumZones("Medium")
    /\ report.hospitals_along_route = NumPois("hospital")
    /\ report.fuel_stations = NumPois("fuel")
    /\ report.police_stations = NumPois("police")
    /\ report.light_traffic_segments = NumSamples("light")
    /\ report.moderate_traffic_segments = NumSamples("moderate")
    /\ report.heavy_traffic_segments = NumSamples("heavy")

\* C13: average_delay_factor is the arithmetic mean of the delay factors of
\* all samples passed in, and exactly 1.0 when there are none.
C13_AverageIsMean ==
    (pc = "report_done" /\ WellFormedReportInputs) =>
        /\ ~raised
        /\ traffic_data = <<>> =>
               report.average_delay_factor.num = report.average_delay_factor.den
        /\ traffic_data # <<>> =>
               report.average_delay_factor.num * Len(traffic_data) * 10
                   = Sum(traffic_data, "delay_factor")
                         * report.average_delay_factor.den

\* C14: for well-formed inputs every count is a non-negative integer equal
\* to the number of matching input items; with empty inputs every count is
\* 0 and the list of safety recommendations is non-empty.
C14_CountsMatchInputs ==
    (pc = "report_done" /\ WellFormedReportInputs) =>
        /\ ~raised
        /\ CountsAreTrue
        /\ \A c \in ReportCounts(report) : c \in Nat
        /\ (risk_zones = <<>> /\ pois = <<>> /\ traffic_data = <<>>) =>
               /\ ReportCounts(report) = {0}
               /\ report.safety_recommendations # <<>>

\* the distance text is missing, empty, unparseable or parses to zero
DistanceUnusable ==
    \/ ~Truthy(total_distance)
    \/ total_distance.tokens = <<>>
    \/ FloatRaises(total_distance.tokens[1])
    \/ FloatTable[total_distance.tokens[1]] = 0

\* C15: with a distance text that is missing, empty, unparseable or zero,
\* only points_per_km is affected (computed with the default constant 1 in
\* place of the distance); the counts are still the true counts.
C15_DistanceGuarded ==
    (pc = "report_done" /\ WellFormedReportInputs /\ DistanceUnusable) =>
        /\ ~raised
        /\ CountsAreTrue
        /\ report.points_per_km.num = Len(coords) * report.points_per_km.den

(***************************************************************************)
(* Further properties of identify_high_risk_zones (under SpecRisk).        *)
(***************************************************************************)
\* number of well-formed hospitals within 500 m of pt
WellFormedHospitalsNear(pt) ==
    Cardinality({k \in 1..Len(pois) :
        /\ "type" \in DOMAIN pois[k] /\ "location" \in DOMAIN pois[k]
        /\ pois[k].type = "hospital"
        /\ WellFormedPoint(pois[k].location)
        /\ GeodesicWithin(pt, pois[k].location, 500)})

ZoneAt(idx) == {z \in 1..Len(risk_zones) : zone_index[z] = idx}

HospitalFactor(z, n) ==
    \E f \in 1..Len(z.risk_factors) :
        z.risk_factors[f].kind = "hospital(s) nearby" /\ z.risk_factors[f].n = n

\* C16: a malformed POI is skipped in isolation: the well-formed hospitals
\* within 500 m of an evaluated point still give that point its hospital
\* factor and 2 per hospital (visible as a zone once that reaches 3).
C16_MalformedPoiIsolated ==
    \A idx \in 0..(i - 1) :
        LET n == WellFormedHospitalsNear(coords[idx + 1])
        IN  (n * 2 >= 3) =>
                \E z \in ZoneAt(idx) :
                    /\ HospitalFactor(risk_zones[z], n)
                    /\ risk_zones[z].risk_score >= n * 2

\* C18 as stated: the first and the last point of the route are never
\* reported as a zone.
C18_EndpointsNeverReported ==
    \A z \in 1..Len(risk_zones) :
        zone_index[z] # 0 /\ zone_index[z] # Len(coords) - 1

\* C18 amended: every point is evaluated, the first and the last included
\* (hospitals nearby or a random draw make them a zone); only the
\* sharp-turn factor is never recorded at the first or the last point.
C18_NoTurnFactorAtEndpoints ==
    \A z \in 1..Len(risk_zones) :
        (zone_index[z] = 0 \/ zone_index[z] = Len(coords) - 1)
            => ~HasFactor(risk_zones[z], "Sharp turn/intersection")

\* on a route long enough for the intersection test, the first and the last
\* point were both reported
C18_Witness ==
    /\ pc = "risk_done" /\ Len(coords) > 2 * IntersectionStride
    /\ ZoneAt(0) # {} /\ ZoneAt(Len(coords) - 1) # {}

\* C19 as stated: High exactly when score >= 7, Medium exactly when
\* 3 <= score < 7, and no other level.
C19_LevelsAt7 ==
    \A z \in Zones :
        /\ z.risk_level \in {"High", "Medium"}
        /\ z.risk_level = "High" <=> z.risk_score >= 7
        /\ z.risk_level = "Medium" <=> (z.risk_score >= 3 /\ z.risk_score < 7)

\* C19 amended: the level is a function of the score alone, with the code's
\* thresholds: High exactly when score >= 6, Medium exactly when
\* 3 <= score < 6, and no other level.
C19_LevelsAt6 ==
    \A z \in Zones :
        /\ z.risk_level \in {"High", "Medium"}
        /\ z.risk_level = "High" <=> z.risk_score >= 6
        /\ z.risk_level = "Medium" <=> (z.risk_score >= 3 /\ z.risk_score < 6)

\* a zone scoring exactly 6 was returned as High
C19_Witness ==
    /\ pc = "risk_done"
    /\ \E z \in Zones : z.risk_score = 6 /\ z.risk_level = "High"

\* turn angle between the bearings into and out of position j, the
\* neighbours taken d positions away
TurnAt(j, d) ==
    calculate_turn_angle(
        calculate_bearing(coords[j - d][1], coords[j - d][2],
                          coords[j][1], coords[j][2]),
        calculate_bearing(coords[j][1], coords[j][2],
                          coords[j + d][1], coords[j + d][2]))

TurnRecordedAt(idx) ==
    \E z \in ZoneAt(idx) : HasFactor(risk_zones[z], "Sharp turn/intersection")

\* C20 as stated: at every interior point the turn angle between the
\* segments (i-1 -> i) and (i -> i+1) is computed and, when it exceeds the
\* threshold, a turn factor is recorded at that point.
C20_EveryInteriorTurnDetected ==
    (pc = "risk_done" /\ i = Len(coords)) =>
        \A idx \in 1..(Len(coords) - 2) :
            TurnAt(idx + 1, 1) > 30 => TurnRecordedAt(idx)

\* C20 amended: the turn is tested only at indices i with i % 10 = 0 and
\* 0 < i < len - 10, from the bearings (i-10 -> i) and (i -> i+10); a turn
\* factor is recorded at i exactly when that angle exceeds 30.
C20_StrideTurnsDetected ==
    \A idx \in 0..(i - 1) :
        TurnRecordedAt(idx) <=>
            /\ idx % 10 = 0 /\ idx > 0 /\ idx < Len(coords) - 10
            /\ WellFormedPoint(coords[idx + 11])
            /\ TurnAt(idx + 1, 10) > 30

\* a turn was recorded at index 10 although the route bends at index 5
C20_Witness ==
    /\ pc = "risk_done" /\ i = Len(coords)
    /\ TurnRecordedAt(10)
    /\ TurnAt(6, 1) > 30 /\ ~TurnRecordedAt(5)

(***************************************************************************)
(* Contributions to the score of a zone (under SpecRisk).                  *)
(***************************************************************************)
FactorKinds == {"hospital(s) nearby", "Sharp turn/intersection",
                "Crowded zone", "Construction zone"}

\* what the factor stands for in the score
FactorWeight(f) ==
    CASE f.kind = "hospital(s) nearby" -> 2 * f.n
      [] f.kind = "Sharp turn/intersection" -> 3
      [] f.kind = "Crowded zone" -> 4
      [] f.kind = "Construction zone" -> 5
      [] OTHER -> 0

RECURSIVE FactorSum(_)
FactorSum(fs) == IF fs = <<>> THEN 0
                 ELSE FactorWeight(Head(fs)) + FactorSum(Tail(fs))

\* well-formed POIs of the given type within 500 m of pt
PoisNear(pt, type) ==
    {k \in 1..Len(pois) :
        /\ "type" \in DOMAIN pois[k] /\ "location" \in DOMAIN pois[k]
        /\ pois[k].type = type
        /\ WellFormedPoint(pois[k].location)
        /\ GeodesicWithin(pt, pois[k].location, 500)}

NoPoiRaises == \A k \in 1..Len(pois) : ~PoiRaises(pois[k])

\* C21 as stated: every POI within 500 m of a point, a police station or a
\* fuel station as much as a hospital, adds a positive contribution to the
\* point's score and a factor of its category: a zone with a police or fuel
\* POI in range lists a factor beyond the hospital, turn and hazard factors
\* and scores more than those factors account for.
C21_EveryCategoryContributes ==
    \A z \in 1..Len(risk_zones) :
        LET zone == risk_zones[z]
        IN  (PoisNear(zone.location, "police") \cup
             PoisNear(zone.location, "fuel")) # {} =>
                /\ \E f \in 1..Len(zone.risk_factors) :
                       zone.risk_factors[f].kind \notin FactorKinds
                /\ zone.risk_score > FactorSum(zone.risk_factors)

\* C21 amended: only POIs of type hospital count.  With no POI raising, a
\* zone lists the hospital factor exactly when a hospital lies within 500 m,
\* with the number of those hospitals, each adding 2; police and fuel POIs
\* in range add no factor and nothing to the score.
C21_OnlyHospitalsContribute ==
    NoPoiRaises =>
        \A z \in 1..Len(risk_zones) :
            LET zone == risk_zones[z]
                n == Cardinality(PoisNear(zone.location, "hospital"))
            IN  /\ \A f \in 1..Len(zone.risk_factors) :
                       /\ zone.risk_factors[f].kind \in FactorKinds
                       /\ zone.risk_factors[f].kind = "hospital(s) nearby"
                              => zone.risk_factors[f].n = n
                /\ n > 0 => HospitalFactor(zone, n)
                /\ zone.risk_score =
                       2 * n
                       + (IF HasFactor(zone, "Sharp turn/intersection")
                          THEN 3 ELSE 0)
                       + (IF HasFactor(zone, "Crowded zone") THEN 4 ELSE 0)
                       + (IF HasFactor(zone, "Construction zone")
                          THEN 5 ELSE 0)

\* a zone of score 4 from two hospitals, with a police station and a fuel
\* station in range as well
C21_Witness ==
    /\ pc = "risk_done"
    /\ \E z \in 1..Len(risk_zones) :
           LET zone == risk_zones[z]
           IN  /\ PoisNear(zone.location, "police") # {}
               /\ PoisNear(zone.location, "fuel") # {}
               /\ HospitalFactor(zone, 2)
               /\ zone.risk_score = 4

\* C25: every zone has a non-empty factor list and a score equal to the sum
\* of what its listed factors stand for (2 per hospital, 3 for the sharp
\* turn, 4 for the crowded zone, 5 for the construction zone), no factor
\* listed twice; the zones are in route order, at most one per point, and
\* each is located at its input point.
C25_ZonesAccountedFor ==
    /\ Len(zone_index) = Len(risk_zones)
    /\ \A z \in 1..Len(risk_zones) :
           LET zone == risk_zones[z]
           IN  /\ zone.risk_factors # <<>>
               /\ \A f \in 1..Len(zone.risk_factors) :
                      zone.risk_factors[f].kind \in FactorKinds
               /\ \A f, g \in 1..Len(zone.risk_factors) :
                      zone.risk_factors[f].kind = zone.risk_factors[g].kind
                          => f = g
               /\ zone.risk_score = FactorSum(zone.risk_factors)
               /\ zone_index[z] \in 0..(Len(coords) - 1)
               /\ zone.location = coords[zone_index[z] + 1]
    /\ \A y, z \in 1..Len(risk_zones) :
           y < z => zone_index[y] < zone_index[z]

\* two zones in one run, one of them with a hospital and a hazard factor
C25_Witness ==
    /\ pc = "risk_done"
    /\ Len(risk_zones) >= 2
    /\ \E z \in 1..Len(risk_zones) :
           /\ Len(risk_zones[z].risk_factors) >= 2
           /\ HasFactor(risk_zones[z], "Crowded zone")
           /\ \E n \in 1..3 : HospitalFactor(risk_zones[z], n)

(***************************************************************************)
(* Points inserted by interpolate_route_points (under SpecInterp).         *)
(***************************************************************************)
\* floor(distance_km * points_per_km) for a segment longer than
\* 1/points_per_km km, else 0
ExpectedInserted(start, end, ppk) ==
    LET m == 1000 \div ppk
        d2 == DistSq(start, end)
        reach == (Abs(end[1] - start[1]) + Abs(end[2] - start[2])) \div m + 1
    IN  IF d2 > m * m
        THEN Cardinality({k \in 1..reach : (k * m) * (k * m) <= d2})
        ELSE 0

RECURSIVE InsertedUpTo(_)
InsertedUpTo(k) ==
    IF k = 0 THEN 0
    ELSE InsertedUpTo(k - 1)
         + ExpectedInserted(coords[k], coords[k + 1], points_per_km)

\* coordinate p is a + (b - a) * j / (n + 1), rounded down to the metre
AtRatio(p, a, b, j, n) ==
    /\ (b - a) * j - (p - a) * (n + 1) >= 0
    /\ (b - a) * j - (p - a) * (n + 1) < n + 1
    /\ Min(a, b) <= p /\ p <= Max(a, b)

\* C22: each segment that is processed appends floor(distance_km *
\* points_per_km) points when it is longer than 1/points_per_km km and none
\* otherwise, then its end point; the j-th inserted point is on the lat/lng
\* line at ratio j/(n+1), strictly between the end points and farther from
\* the start than the one before it.  A call that completes returns the
\* input points plus the inserted ones, so two points 10 km apart at 10
\* points per km get at least 99 interior points.
C22_InsertsFloorOnLine ==
    [][ /\ (pc = "interp_loop" /\ i < Len(coords) /\ i' = i + 1) =>
            LET start == coords[i]
                end == coords[i + 1]
                n == ExpectedInserted(start, end, points_per_km)
                base == Len(interpolated)
                pt(j) == interpolated'[base + j]
            IN  /\ Len(interpolated') = base + n + 1
                /\ SubSeq(interpolated', 1, base) = interpolated
                /\ pt(n + 1) = end
                /\ \A j \in 1..n :
                       /\ AtRatio(pt(j)[1], start[1], end[1], j, n)
                       /\ AtRatio(pt(j)[2], start[2], end[2], j, n)
                       /\ pt(j) # start /\ pt(j) # end
                       /\ j > 1 => DistSq(start, pt(j - 1)) < DistSq(start, pt(j))
        /\ (pc = "interp_loop" /\ pc' = "interp_done" /\ ~caught') =>
            /\ Len(returned') = Len(coords) + InsertedUpTo(Len(coords) - 1)
            /\ (coords \in LongRoutes /\ points_per_km = 10) =>
                   Len(returned') - 2 >= 99
      ]_vars

\* the 10 km diagonal at 10 points per km came back with 100 interior points
C22_Witness ==
    /\ pc = "interp_done" /\ ~caught
    /\ coords = << <<0, 0>>, <<6000, 8000>> >>
    /\ points_per_km = 10
    /\ Len(returned) = 102
    /\ returned[2] = <<59, 79>>

(***************************************************************************)
(* Sampling and level distribution of get_traffic_data (under SpecTraffic).*)
(***************************************************************************)
\* ceil(n / 5)
EveryFifth(n) == (n + 4) \div 5

\* C23 as stated: a call that completes returns exactly one sample for each
\* point at index 0, 5, 10, ... of the route, in route order, and for no
\* other point: ceil(n/5) samples for n points, a number that never falls
\* when the route grows.
C23_EveryFifthPoint ==
    (pc = "traffic_done" /\ ~caught) =>
        /\ Len(traffic_data) = EveryFifth(Len(coords))
        /\ \A k \in 1..Len(traffic_data) :
               traffic_data[k].location = coords[5 * (k - 1) + 1]

\* C23 amended: a route of more than 5 points is sampled at index 0, 5,
\* 10, ... (ceil(n/5) samples); a route of 5 points or fewer is sampled at
\* every point (n samples).
C23_EveryFifthWhenLong ==
    (pc = "traffic_done" /\ ~caught) =>
        LET n == Len(coords)
        IN  IF n > 5
            THEN /\ Len(traffic_data) = EveryFifth(n)
                 /\ \A k \in 1..Len(traffic_data) :
                        traffic_data[k].location = coords[5 * (k - 1) + 1]
            ELSE /\ Len(traffic_data) = n
                 /\ \A k \in 1..n : traffic_data[k].location = coords[k]

\* a route of exactly 5 points came back with 5 samples
C23_Witness ==
    /\ pc = "traffic_done" /\ ~caught
    /\ Len(coords) = 5 /\ Len(traffic_data) = 5

\* the band of the day an hour belongs to
BandOf(h) == IF h \in (7..9) \cup (17..19) THEN "peak"
             ELSE IF h \in 10..16 THEN "daytime"
             ELSE "off-peak"

Drawn(h) == weights_at[h] # <<>>

\* C24 as stated: the level distribution is the one of the band of the
\* current hour, and the bands do not all share one distribution: once
\* calls have drawn levels at an hour of every band, two hours of different
\* bands show different distributions.
C24_HourBandDecides ==
    (\A h \in Hours : Drawn(h)) =>
        \E g, h \in Hours :
            BandOf(g) # BandOf(h) /\ weights_at[g] # weights_at[h]

\* C24 amended: the hour is no input of get_traffic_data; at every hour each
\* level is drawn with the same probabilities, light 0.4, moderate 0.4,
\* heavy 0.2.
C24_OneDistribution ==
    \A h \in Hours : Drawn(h) => weights_at[h] = <<40, 40, 20>>

\* levels have been drawn at a peak hour and at an off-peak hour
C24_Witness ==
    /\ Drawn(8) /\ Drawn(3)
    /\ BandOf(8) = "peak" /\ BandOf(3) = "off-peak"
    /\ weights_at[8] = weights_at[3]
    /\ pc = "traffic_done" /\ hour = 8 /\ Len(traffic_data) > 0

(***************************************************************************)
(* Properties of the request handlers (checked under SpecWeb).             *)
(***************************************************************************)
\* C26: analyze_route analyses a route only when route_index is a valid
\* index of the routes stored in the session, 0 <= index < number of
\* stored routes; for any other integer index, or with no routes stored,
\* it answers 'Invalid route selected or session data expired', stores no
\* report and writes no map.
C26_OnlyValidIndexAnalysed ==
    [][ (last'.handler = "analyze_route" /\ IsNumber(last'.route_index)) =>
            LET s == last'.by
                index == last'.route_index
                n == Len(session[s].directions)
            IN  (index < 0 \/ index >= n) =>
                    /\ last'.body = InvalidRoute
                    /\ session'[s] = session[s]
                    /\ map_files' = map_files
      ]_vars

\* C27: detailed_report renders a report only if an analyze_route of the
\* session completed after the session's most recent fetch_routes; with no
\* such analysis (never one, or a fetch_routes since, whatever that fetch
\* answered) it answers 'No route analysis data found'.
C27_ReportOnlyAfterAnalysis ==
    last.handler = "detailed_report" =>
        LET analysed == history[last.by] = "analysed"
        IN  /\ last.body = "detailed_report.html" => analysed
            /\ ~analysed => last.body = NoAnalysis
            /\ ~analysed => session[last.by].route_report = 0

\* a session that had a report stored, then posted a fetch_routes that
\* stored no routes (rejected, failed or empty), is told there is no
\* analysis
C27_Witness ==
    /\ last.handler = "detailed_report"
    /\ last.body = NoAnalysis
    /\ history[last.by] = "cleared"
    /\ session[last.by].directions = <<>>

\* C28: the map file a session's analyze_route wrote stays servable by
\* view_map until that session's next fetch_routes, whatever the other
\* sessions request in between: the session asking for the map its
\* analysis page links to is never told 'Map file not found'.
C28_OwnMapServable ==
    (/\ last.handler = "view_map"
     /\ html_file[last.by] # 0
     /\ last.filename = html_file[last.by]) =>
        /\ last.status = 200
        /\ last.body # "Map file not found"

====
